---- MODULE Spec2Model ----
(***************************************************************************)
(* Model of the compile-and-run core of Cpp-Mastery-Hub's cpp-engine:      *)
(* ExecutionEngine::compile / execute / executeProcess and the session     *)
(* directories they create under temp/.                                    *)
(*                                                                         *)
(* Abstractions.  A text line is one string; a std::string that the code   *)
(* builds by concatenation is the sequence of its parts.  Durations are    *)
(* not modelled: "the child has not exited by the deadline" is the         *)
(* predicate OutlivesDeadline.  The pipe buffer is counted in lines.       *)
(***************************************************************************)
EXTENDS Integers, Sequences, FiniteSets, TLC

VARIABLES
    server,           \* the serving process: "running" | "terminated"
    pc,               \* position of the worker inside compile / execute
    req,              \* the request being served: [api, code, input]
    fs,               \* temp/: session id -> [dir, src, bin]
    session_id,       \* session id of the compile call in progress
    proc,             \* executeProcess: [purpose, args, exit_code, stdout, stderr]
    child,            \* the forked child of the executeProcess call in progress
    stdout_pipe,      \* lines buffered in the stdout pipe
    stderr_pipe,      \* lines buffered in the stderr pipe
    alarm_armed,      \* alarm(timeout_seconds) pending in the serving process
    parent_fds,       \* pipe descriptors the parent holds of the call in progress
    compile_result,   \* CompilationResult of the compile call of this request
    result,           \* ExecutionResult of the execute call of this request
    sandbox_enabled,  \* Config: execution.sandbox_enabled
    docker_available, \* the sandbox backend (docker and its image) is reachable
    hist,             \* history of the request: what happened, for the properties
    wk,               \* the worker threads of the concurrent specification
    fn,               \* argument and value of the pure function under check
    ee,               \* the ExecutionEngine singleton during initialize
    srv,              \* main, the server thread and the signal handler
    lg                \* the Logger singleton and the threads inside it

vars == <<server, pc, req, fs, session_id, proc, child, stdout_pipe, stderr_pipe,
          alarm_armed, parent_fds, compile_result, result,
          sandbox_enabled, docker_available, hist, wk, fn, ee, srv, lg>>

\* the variables the one-worker specification does not use
others == <<wk, fn, ee, srv, lg>>

----------------------------------------------------------------------------
(* Bounds *)

PipeCap == 2                      \* lines a pipe buffers before write() blocks
SessionIds == {"a1", "b2"}        \* values generateSessionId can return
Inputs == {"42", "7"}             \* request bodies' "input" strings

(* Program constants *)

SIGKILL == 9
SIGSEGV == 11
WCOREFLAG == 128
EXEC_FAILED == 127

compiler_path == <<"/usr/bin/g++">>
clang_path == <<"/usr/bin/clang++">>
cpp_standard == "c++20"
optimization_level == "O2"

----------------------------------------------------------------------------
(* Source texts, by what the compiler and the built program do.            *)
(*   cend/rend : how the process ends: <<"exit", code>>, <<"signal", sig>>,*)
(*               or <<"loop">> (it never ends on its own)                  *)
(*   cerr      : the diagnostics the compiler writes to stderr             *)
(*   out, err  : the lines the program writes                              *)
(*   reads     : the program first reads its standard input and prints it  *)
(*   hog       : the program allocates far beyond any memory ceiling       *)

RECURSIVE Rep(_, _)
Rep(x, n) == IF n = 0 THEN <<>> ELSE <<x>> \o Rep(x, n - 1)

Base == [cend |-> <<"exit", 0>>, cerr |-> <<>>, rend |-> <<"exit", 0>>,
         out |-> <<>>, err |-> <<>>, reads |-> FALSE, hog |-> FALSE]

Programs ==
    [hello   |-> [Base EXCEPT !.out = <<"Hello, World!">>],
     warn    |-> [Base EXCEPT !.cerr = <<"main.cpp:3: warning: unused variable">>,
                              !.rend = <<"exit", 3>>],
     fail    |-> [Base EXCEPT !.rend = <<"exit", 1>>, !.err = <<"fatal">>],
     syntax  |-> [Base EXCEPT !.cend = <<"exit", 1>>,
                              !.cerr = <<"main.cpp:4: error: expected ;">>],
     nodiag  |-> [Base EXCEPT !.cend = <<"exit", 1>>,
                              !.cerr = <<"collect2: ld returned 1 exit status">>],
     segv    |-> [Base EXCEPT !.rend = <<"signal", SIGSEGV>>],
     loop    |-> [Base EXCEPT !.rend = <<"loop">>],
     memhog  |-> [Base EXCEPT !.hog = TRUE, !.out = <<"Allocated successfully">>],
     cat     |-> [Base EXCEPT !.reads = TRUE],
     bigout  |-> [Base EXCEPT !.out = Rep("line", PipeCap + 1)],
     bomb    |-> [Base EXCEPT !.cend = <<"loop">>],
     ice     |-> [Base EXCEPT !.cend = <<"signal", SIGKILL>>]]

Codes == DOMAIN Programs

(* std::string::find on the lines the model uses *)
HasWarningToken(line) == line \in {"main.cpp:3: warning: unused variable",
                                   "main.cpp:1:2: error: #error warning: deprecated"}
HasErrorToken(line) == line \in {"main.cpp:4: error: expected ;",
                                 "main.cpp:1:2: error: #error warning: deprecated"}

----------------------------------------------------------------------------
(* Values of the data model *)

NoFile == "nofile"
NoDir == [dir |-> FALSE, src |-> FALSE, bin |-> NoFile]
NoSession == "nosession"

NoChild == [state |-> "none", out |-> <<>>, err |-> <<>>, end |-> <<"exit", 0>>,
            reads |-> "no", hog |-> FALSE, builds |-> NoSession, status |-> 0]

\* a ProcessResult that starts with exit_code = 0
ProcessResult_ZeroInit == [exit_code |-> 0, stdout |-> <<>>, stderr |-> <<>>, memory_usage_kb |-> 0, cpu_time_ms |-> 0]

\* ProcessResult as declared (exit_code = -1, empty strings, zero counters)
ProcessResult == [exit_code |-> -1, stdout |-> <<>>, stderr |-> <<>>,
                  memory_usage_kb |-> 0, cpu_time_ms |-> 0]

NoProc == [purpose |-> "none", args |-> <<>>, res |-> ProcessResult]

\* CompilationResult as declared, with result.success = false
CompilationResult == [success |-> FALSE, executable_path |-> <<>>,
                      warnings |-> <<>>, errors |-> <<>>, compiler_output |-> <<>>]

\* ExecutionResult as declared, with result.success = false
ExecutionResult == [success |-> FALSE, exit_code |-> 0, stdout |-> <<>>,
                    stderr |-> <<>>, memory_usage_kb |-> 0, cpu_time_ms |-> 0,
                    error_message |-> <<>>]

NoReq == [api |-> "none", code |-> "hello", input |-> "42"]

NoHist == [compile_returned |-> FALSE, run_spawned |-> FALSE, run_args |-> <<>>,
           deadline |-> FALSE, run_end |-> <<"none">>, dirs_before |-> 0,
           session |-> NoSession, fault |-> "none", compiler_missing |-> FALSE]

----------------------------------------------------------------------------
(* Pure functions of the code *)

\* the wait status waitpid stores for a child that ended with `end`
WaitStatus(end) ==
    IF end[1] = "exit" THEN (end[2] % 256) * 256
    ELSE end[2] + (IF end[2] = SIGSEGV THEN WCOREFLAG ELSE 0)

\* <sys/wait.h>
WEXITSTATUS(status) == (status \div 256) % 256

\* the session directory's path, the source file's and the executable's
WorkDir(id) == <<"temp/", id>>
SourceFile(id) == WorkDir(id) \o <<"/main.cpp">>
OutputFile(id) == WorkDir(id) \o <<"/main">>

\* std::filesystem::path::parent_path of temp/<id>/main
ParentPath(path) == SubSeq(path, 1, Len(path) - 1)

\* the session a path lies in
SessionOf(path) == IF Len(path) >= 2 /\ path[1] = "temp/" THEN path[2] ELSE NoSession

\* the extra flags pushed before the fixed warning flags
buildCompileCommand_FlagsFirst(source_file, output_file, compiler, standard, optimization, debug_info, extra_flags) ==
    <<IF compiler = "clang++" THEN clang_path ELSE compiler_path>>
    \o <<<<"-std=", standard>>>>
    \o <<<<"-", optimization>>>>
    \o (IF debug_info THEN <<<<"-g">>>> ELSE <<>>)
    \o extra_flags
    \o <<<<"-Wall">>, <<"-Wextra">>, <<"-pedantic">>>>
    \o <<source_file, <<"-o">>, output_file>>

buildCompileCommand(source_file, output_file, compiler, standard, optimization, debug_info, extra_flags) ==
    <<IF compiler = "clang++" THEN clang_path ELSE compiler_path>>
    \o <<<<"-std=", standard>>>>
    \o <<<<"-", optimization>>>>
    \o (IF debug_info THEN <<<<"-g">>>> ELSE <<>>)
    \o <<<<"-Wall">>, <<"-Wextra">>, <<"-pedantic">>>>
    \o extra_flags
    \o <<source_file, <<"-o">>, output_file>>

RECURSIVE parseCompilerMessages(_, _, _)
\* returns <<warnings, errors>> after the lines of compiler_output are classified
parseCompilerMessages(compiler_output, warnings, errors) ==
    IF compiler_output = <<>> THEN <<warnings, errors>>
    ELSE LET line == Head(compiler_output) IN
         IF HasWarningToken(line)
         THEN parseCompilerMessages(Tail(compiler_output), Append(warnings, line), errors)
         ELSE IF HasErrorToken(line)
         THEN parseCompilerMessages(Tail(compiler_output), warnings, Append(errors, line))
         ELSE parseCompilerMessages(Tail(compiler_output), warnings, errors)

RECURSIVE JoinErrors(_, _)
\* error_message += "\n" + error, for every error
JoinErrors(msg, errors) ==
    IF errors = <<>> THEN msg
    ELSE JoinErrors(msg \o <<"\n", Head(errors)>>, Tail(errors))

\* std::filesystem::remove_all of an existing directory
cleanupSession(files, session_dir) ==
    LET id == SessionOf(session_dir) IN
    IF id \in SessionIds /\ files[id].dir
    THEN [files EXCEPT ![id] = NoDir]
    ELSE files

Dirs(files) == {id \in SessionIds : files[id].dir}

----------------------------------------------------------------------------
(* The state after construction and configuration *)

\* std::signal is called for SIGINT, SIGTERM, SIGABRT and SIGPIPE only
SignalDisposition(sig) ==
    IF sig \in {"SIGINT", "SIGTERM", "SIGABRT"} THEN "signalHandler"
    ELSE IF sig = "SIGPIPE" THEN "SIG_IGN"
    ELSE "SIG_DFL"

\* the resource limits the child branch sets between fork and execvp: none
ChildLimits == {}

Init ==
    /\ server = "running"
    /\ pc = "idle"
    /\ req = NoReq
    /\ fs = [id \in SessionIds |-> NoDir]
    /\ session_id = NoSession
    /\ proc = NoProc
    /\ child = NoChild
    /\ stdout_pipe = <<>>
    /\ stderr_pipe = <<>>
    /\ alarm_armed = FALSE
    /\ parent_fds = {}
    /\ compile_result = CompilationResult
    /\ result = ExecutionResult
    /\ sandbox_enabled \in BOOLEAN
    /\ docker_available \in BOOLEAN
    /\ hist = NoHist
    /\ wk = <<>>
    /\ fn = <<>>
    /\ ee = <<>> /\ srv = <<>> /\ lg = <<>>

----------------------------------------------------------------------------
(* Server::handleCompile and Server::handleExecute call the engine *)

handleCompile(code) ==
    /\ server = "running" /\ pc = "idle"
    /\ req' = [api |-> "compile", code |-> code, input |-> NoReq.input]
    /\ pc' = "compile"
    /\ compile_result' = CompilationResult
    /\ result' = ExecutionResult
    /\ hist' = [NoHist EXCEPT !.dirs_before = Cardinality(Dirs(fs))]
    /\ UNCHANGED <<others, server, fs, session_id, proc, child, stdout_pipe, stderr_pipe,
                   alarm_armed, parent_fds, sandbox_enabled,
                   docker_available>>

\* execute up to its call of compile
handleExecute(code, input) ==
    /\ server = "running" /\ pc = "idle"
    /\ req' = [api |-> "execute", code |-> code, input |-> input]
    /\ pc' = "compile"
    /\ compile_result' = CompilationResult
    /\ result' = ExecutionResult
    /\ hist' = [NoHist EXCEPT !.dirs_before = Cardinality(Dirs(fs))]
    /\ UNCHANGED <<others, server, fs, session_id, proc, child, stdout_pipe, stderr_pipe,
                   alarm_armed, parent_fds, sandbox_enabled,
                   docker_available>>

\* where compile's return leads: back to the handler, or on into execute
CompileReturnsTo(api) == IF api = "compile" THEN "returned" ELSE "execute"

----------------------------------------------------------------------------
(* ExecutionEngine::compile, up to its call of executeProcess *)

\* std::filesystem::create_directories(work_dir)
create_directories(files, id) ==
    IF ~files[id].dir THEN [files EXCEPT ![id] = [dir |-> TRUE, src |-> FALSE, bin |-> NoFile]]
    ELSE files

\* file << code on the opened std::ofstream
WriteSource(files, id, code) == [files EXCEPT ![id].src = TRUE]

\* the text the compiler finds in main.cpp: the code of the request, or, when
\* file << code failed half way (the stream's state is not tested), a text
\* that stops in the middle of a statement
SourceRead(code, fault) == IF fault = "write" THEN "syntax" ELSE code

\* a try block in compile that starts after the flags have been read
CompileTryScope_NoFlags == {"create_directories"}

\* the places inside the try block of compile (lines 92-152) that can throw
CompileTryScope == {"create_directories", "flags"}

\* the places inside the try block of execute (lines 167-210) that can throw
ExecuteTryScope == {"compile", "absolute"}

\* where an exception thrown at `site` inside compile takes the worker: to
\* compile's catch and return, to execute's catch, or out of the engine
CompileThrowLeadsTo(api, site) ==
    IF site \in CompileTryScope THEN CompileReturnsTo(api)
    ELSE IF api = "execute" /\ "compile" \in ExecuteTryScope THEN "returned"
    ELSE "unwound"

compile_begin(id, compiler, thrown, opened, written) ==
    /\ server = "running" /\ pc = "compile"
    /\ session_id' = id
    /\ LET fault == IF thrown = "create_directories" THEN thrown
                    ELSE IF ~opened THEN "open"
                    ELSE IF thrown = "none" /\ ~written THEN "write" ELSE thrown
       IN hist' = [hist EXCEPT !.session = id,
                               !.fault = fault,
                               !.compile_returned = (fault = "open"
                                   \/ (fault # "none" /\ fault \in CompileTryScope))]
    /\ IF thrown = "create_directories"
       THEN \* catch: "Internal compilation error: ..."
            /\ fs' = fs
            /\ compile_result' = IF thrown \in CompileTryScope
                   THEN [compile_result EXCEPT
                       !.errors = Append(@, "Internal compilation error: filesystem error")]
                   ELSE compile_result
            /\ pc' = CompileThrowLeadsTo(req.api, thrown)
            /\ proc' = proc
       ELSE IF ~opened
       THEN \* the source file cannot be opened
            /\ fs' = create_directories(fs, id)
            /\ compile_result' = [compile_result EXCEPT
                   !.errors = Append(@, "Failed to create source file")]
            /\ pc' = CompileReturnsTo(req.api)
            /\ proc' = proc
       ELSE IF thrown = "flags"
       THEN \* flag.get<std::string>() on an entry that is no string
            /\ fs' = WriteSource(create_directories(fs, id), id, req.code)
            /\ compile_result' = IF thrown \in CompileTryScope
                   THEN [compile_result EXCEPT
                       !.errors = Append(@, "Internal compilation error: type_error")]
                   ELSE compile_result
            /\ pc' = CompileThrowLeadsTo(req.api, thrown)
            /\ proc' = proc
       ELSE /\ fs' = WriteSource(create_directories(fs, id), id, req.code)
            /\ compile_result' = compile_result
            /\ proc' = [purpose |-> "compile",
                        args |-> buildCompileCommand(SourceFile(id), OutputFile(id),
                                     compiler, cpp_standard, optimization_level,
                                     FALSE, <<>>),
                        res |-> ProcessResult]
            /\ pc' = "executeProcess"
    /\ result' = IF thrown # "none" /\ (thrown = "create_directories" \/ opened)
                    /\ thrown \notin CompileTryScope /\ req.api = "execute"
                    /\ "compile" \in ExecuteTryScope
                 THEN [result EXCEPT !.error_message =
                          <<"Internal execution error: ", thrown>>]
                 ELSE result
    /\ UNCHANGED <<others, server, req, child, stdout_pipe, stderr_pipe, alarm_armed,
                   parent_fds, sandbox_enabled, docker_available>>

----------------------------------------------------------------------------
(* ExecutionEngine::executeProcess and the child it forks *)

\* where executeProcess returns to
ReturnSite(purpose) == IF purpose = "compile" THEN "compile_end" ELSE "execute_end"

\* what execvp(c_args[0], c_args) makes of the child; `present` says whether
\* the clang++ binary exists (startup fails without g++, and only warns
\* about clang++), `code` is the text of the source file (the code of the
\* request, which compile has just written)
ExecImage(args, files, present, code) ==
    LET binary == args[1] IN
    IF binary \in {compiler_path, clang_path}
    THEN LET id == SessionOf(args[Len(args) - 2]) IN
         IF (binary = compiler_path \/ present) /\ id \in SessionIds
            /\ files[id].dir /\ files[id].src
         THEN [NoChild EXCEPT !.state = "running",
                              !.err = Programs[code].cerr,
                              !.end = Programs[code].cend,
                              !.builds = id]
         ELSE [NoChild EXCEPT !.state = "running", !.end = <<"exit", EXEC_FAILED>>]
    ELSE LET id == SessionOf(binary) IN
         IF id \in SessionIds /\ files[id].dir /\ files[id].bin # NoFile
         THEN [NoChild EXCEPT !.state = "running",
                              !.out = Programs[files[id].bin].out,
                              !.err = Programs[files[id].bin].err,
                              !.end = Programs[files[id].bin].rend,
                              !.reads = IF Programs[files[id].bin].reads THEN "wants" ELSE "no",
                              !.hog = Programs[files[id].bin].hog]
         ELSE [NoChild EXCEPT !.state = "running", !.end = <<"exit", EXEC_FAILED>>]

\* lines 375-422: argument check, pipe, pipe, fork, the child's dup2 and execvp,
\* the parent's close of the write ends and alarm(timeout_seconds)
executeProcess_spawn(pipes, forked, present) ==
    /\ server = "running" /\ pc = "executeProcess"
    /\ IF proc.args = <<>>
       THEN /\ pc' = ReturnSite(proc.purpose)
            /\ UNCHANGED <<child, alarm_armed, parent_fds, hist>>
       ELSE IF pipes = "first_fails"
       THEN /\ pc' = ReturnSite(proc.purpose)
            /\ parent_fds' = {}
            /\ hist' = [hist EXCEPT !.fault = "pipe"]
            /\ UNCHANGED <<child, alarm_armed>>
       ELSE IF pipes = "second_fails"
       THEN /\ pc' = ReturnSite(proc.purpose)
            /\ parent_fds' = {"stdout_pipe[0]", "stdout_pipe[1]"}
            /\ hist' = [hist EXCEPT !.fault = "pipe"]
            /\ UNCHANGED <<child, alarm_armed>>
       ELSE IF ~forked
       THEN /\ pc' = ReturnSite(proc.purpose)
            /\ parent_fds' = {}
            /\ hist' = [hist EXCEPT !.fault = "fork"]
            /\ UNCHANGED <<child, alarm_armed>>
       ELSE /\ child' = ExecImage(proc.args, fs, present, SourceRead(req.code, hist.fault))
            /\ parent_fds' = {"stdout_pipe[0]", "stderr_pipe[0]"}
            /\ alarm_armed' = TRUE
            /\ pc' = "waitpid"
            /\ hist' = IF proc.purpose = "run"
                       THEN [hist EXCEPT !.run_spawned = TRUE, !.run_args = proc.args]
                       ELSE [hist EXCEPT !.compiler_missing =
                                (proc.args[1] = clang_path /\ ~present)]
    /\ stdout_pipe' = <<>>
    /\ stderr_pipe' = <<>>
    /\ UNCHANGED <<others, server, req, fs, session_id, proc, compile_result, result,
                   sandbox_enabled, docker_available>>

CanWriteStdout == child.state = "running" /\ child.reads = "no" /\ child.out # <<>>
                  /\ Len(stdout_pipe) < PipeCap
CanWriteStderr == child.state = "running" /\ child.reads = "no" /\ child.err # <<>>
                  /\ Len(stderr_pipe) < PipeCap
CanReadStdin == child.state = "running" /\ child.reads = "wants"
CanExit == child.state = "running" /\ child.reads = "no" /\ child.out = <<>>
           /\ child.err = <<>> /\ child.end[1] # "loop"

\* the child is blocked in write() on a full pipe
BlockedOnWrite == /\ child.state = "running" /\ child.reads = "no"
                  /\ \/ child.out # <<>> /\ Len(stdout_pipe) >= PipeCap
                     \/ child.err # <<>> /\ Len(stderr_pipe) >= PipeCap
                  /\ ~CanWriteStdout /\ ~CanWriteStderr

\* the child does not exit before timeout_seconds have passed
OutlivesDeadline == child.state = "running" /\ ~CanWriteStdout /\ ~CanWriteStderr
                    /\ ~CanReadStdin /\ ~CanExit

child_write_stdout ==
    /\ server = "running" /\ CanWriteStdout
    /\ stdout_pipe' = Append(stdout_pipe, Head(child.out))
    /\ child' = [child EXCEPT !.out = Tail(@)]
    /\ UNCHANGED <<others, server, pc, req, fs, session_id, proc, stderr_pipe, alarm_armed,
                   parent_fds, compile_result, result, 
                   sandbox_enabled, docker_available, hist>>

child_write_stderr ==
    /\ server = "running" /\ CanWriteStderr
    /\ stderr_pipe' = Append(stderr_pipe, Head(child.err))
    /\ child' = [child EXCEPT !.err = Tail(@)]
    /\ UNCHANGED <<others, server, pc, req, fs, session_id, proc, stdout_pipe, alarm_armed,
                   parent_fds, compile_result, result, 
                   sandbox_enabled, docker_available, hist>>

\* the line a program that echoes its input prints for what it has read
EchoLine(data) == IF data = "EOF" THEN "You entered: 0" ELSE data

\* what a read of the serving process's descriptor 0 can yield: end of file
\* (/dev/null, a closed pipe), nothing yet (a terminal), or somebody's data
ServerStdin == {"EOF", "TTY", "7"}

\* the program reads its descriptor 0.  The child branch redirects descriptors
\* 1 and 2 only, so descriptor 0 is the one inherited from the serving process
child_read_stdin(data) ==
    /\ server = "running" /\ CanReadStdin
    /\ child' = IF data = "TTY" THEN [child EXCEPT !.reads = "blocked"]
                ELSE [child EXCEPT !.reads = "no", !.out = <<EchoLine(data)>>]
    /\ UNCHANGED <<others, server, pc, req, fs, session_id, proc, stdout_pipe, stderr_pipe,
                   alarm_armed, parent_fds, compile_result, result,
                   sandbox_enabled, docker_available, hist>>

\* how the child ends: as its program says, unless a limit set before execvp
\* stops the allocation first
ChildEnd(c) == IF c.hog /\ "RLIMIT_AS" \in ChildLimits THEN <<"signal", SIGKILL>>
               ELSE c.end

\* the child exits or is killed by a signal; a compiler that exits 0 has
\* written the executable
child_exit ==
    /\ server = "running" /\ CanExit
    /\ child' = [child EXCEPT !.state = "zombie", !.status = WaitStatus(ChildEnd(child))]
    /\ fs' = IF child.builds # NoSession /\ ChildEnd(child) = <<"exit", 0>>
                /\ fs[child.builds].dir
             THEN [fs EXCEPT ![child.builds].bin = req.code]
             ELSE fs
    /\ hist' = IF proc.purpose = "run" THEN [hist EXCEPT !.run_end = ChildEnd(child)]
               ELSE hist
    /\ UNCHANGED <<others, server, pc, req, session_id, proc, stdout_pipe, stderr_pipe,
                   alarm_armed, parent_fds, compile_result, result, 
                   sandbox_enabled, docker_available>>

\* timeout_seconds after alarm(timeout_seconds) the kernel sends SIGALRM to the
\* serving process; its disposition decides what happens
alarm_expires ==
    /\ server = "running" /\ alarm_armed /\ pc = "waitpid" /\ OutlivesDeadline
    /\ alarm_armed' = FALSE
    /\ hist' = [hist EXCEPT !.deadline = TRUE]
    /\ server' = IF SignalDisposition("SIGALRM") = "SIG_DFL" THEN "terminated"
                 ELSE server
    /\ UNCHANGED <<others, pc, req, fs, session_id, proc, child, stdout_pipe, stderr_pipe,
                   parent_fds, compile_result, result, 
                   sandbox_enabled, docker_available>>

\* lines 424-436: waitpid(pid, &status, 0) returns once the child has ended.
\* No handler of this program interrupts it (std::signal installs restarting
\* handlers), so wait_result is the pid.
executeProcess_waitpid ==
    /\ server = "running" /\ pc = "waitpid" /\ child.state = "zombie"
    /\ child' = [child EXCEPT !.state = "reaped"]
    /\ alarm_armed' = FALSE
    /\ proc' = [proc EXCEPT !.res.exit_code = WEXITSTATUS(child.status)]
    /\ pc' = "read"
    /\ UNCHANGED <<others, server, req, fs, session_id, stdout_pipe, stderr_pipe,
                   parent_fds, compile_result, result, 
                   sandbox_enabled, docker_available, hist>>

\* lines 438-456: both pipes are read to end of file and closed
executeProcess_read ==
    /\ server = "running" /\ pc = "read"
    /\ proc' = [proc EXCEPT !.res.stdout = @ \o stdout_pipe,
                            !.res.stderr = @ \o stderr_pipe]
    /\ stdout_pipe' = <<>>
    /\ stderr_pipe' = <<>>
    /\ parent_fds' = {}
    /\ pc' = ReturnSite(proc.purpose)
    /\ UNCHANGED <<others, server, req, fs, session_id, child, alarm_armed, compile_result,
                   result, sandbox_enabled, docker_available, hist>>

----------------------------------------------------------------------------
(* ExecutionEngine::compile after executeProcess has returned (lines 131-151) *)

\* success decided by the absence of error lines instead of the exit code
CompileSucceeded_ByErrors(res, errors) == errors = <<>>

\* lines 136-145: success is true in the branch compile_result.exit_code == 0
\* and false in the other
CompileSucceeded(res, errors) == res.exit_code = 0

\* executable_path assigned whatever the outcome
ExecutablePathAfter_Always(success, output_file, before) == output_file

\* line 138: executable_path is assigned in the successful branch only
ExecutablePathAfter(success, output_file, before) ==
    IF success THEN output_file ELSE before

compile_end ==
    /\ server = "running" /\ pc = "compile_end"
    /\ LET output == proc.res.stderr \o proc.res.stdout
           parsed == parseCompilerMessages(output, compile_result.warnings,
                                           compile_result.errors)
           success == CompileSucceeded(proc.res, parsed[2])
       IN compile_result' =
              [compile_result EXCEPT
                  !.compiler_output = output,
                  !.success = success,
                  !.executable_path = ExecutablePathAfter(success,
                                          OutputFile(session_id), @),
                  !.warnings = parsed[1],
                  !.errors = parsed[2]]
    /\ hist' = [hist EXCEPT !.compile_returned = TRUE]
    /\ pc' = CompileReturnsTo(req.api)
    /\ UNCHANGED <<others, server, req, fs, session_id, proc, child, stdout_pipe,
                   stderr_pipe, alarm_armed, parent_fds, result, 
                   sandbox_enabled, docker_available>>

----------------------------------------------------------------------------
(* ExecutionEngine::execute after compile has returned *)

\* execute without the test of the compile result
CompileFailed_NoCheck(cr) == FALSE

\* the test of line 171
CompileFailed(cr) == ~cr.success

\* executeInSandbox: the docker command line it builds
docker_args(executable_path) ==
    <<<<"docker">>, <<"run">>, <<"--rm">>, <<"-i">>, <<"--memory=", "512", "m">>,
      <<"--cpus=", "5">>, <<"--network=none">>, <<"--user=nobody">>, <<"-v">>,
      executable_path \o <<":/app/program:ro">>, <<"cpp-sandbox:latest">>,
      <<"/app/program">>>>

\* executeDirectly: the argument vector it passes to executeProcess; the
\* input and the options are not used
executeDirectly(executable_path, input) == <<executable_path>>

\* executeInSandbox: builds docker_args and falls back to executeDirectly
executeInSandbox(executable_path, input) == executeDirectly(executable_path, input)

\* lines 171-189, with executeInSandbox / executeDirectly up to executeProcess;
\* `thrown` says whether std::filesystem::absolute throws
execute_afterCompile(thrown) ==
    /\ server = "running" /\ pc = "execute"
    /\ IF CompileFailed(compile_result)
       THEN /\ result' = [result EXCEPT
                   !.success = FALSE,
                   !.error_message = JoinErrors(<<"Compilation failed">>,
                                                compile_result.errors)]
            /\ pc' = "returned"
            /\ proc' = proc
            /\ hist' = hist
       ELSE IF sandbox_enabled /\ thrown
       THEN /\ result' = IF "absolute" \in ExecuteTryScope
                         THEN [result EXCEPT !.error_message =
                                  <<"Internal execution error: ", "filesystem error">>]
                         ELSE result
            /\ pc' = IF "absolute" \in ExecuteTryScope THEN "returned" ELSE "unwound"
            /\ proc' = proc
            /\ hist' = [hist EXCEPT !.fault = "absolute"]
       ELSE /\ result' = result
            /\ proc' = [purpose |-> "run",
                        args |-> IF sandbox_enabled
                                 THEN executeInSandbox(compile_result.executable_path,
                                                       req.input)
                                 ELSE executeDirectly(compile_result.executable_path,
                                                      req.input),
                        res |-> ProcessResult]
            /\ pc' = "executeProcess"
            /\ hist' = hist
    /\ UNCHANGED <<others, server, req, fs, session_id, child, stdout_pipe, stderr_pipe,
                   alarm_armed, parent_fds, compile_result,
                   sandbox_enabled, docker_available>>

\* lines 191-210
execute_end ==
    /\ server = "running" /\ pc = "execute_end"
    /\ LET exec_result == proc.res
           ok == (exec_result.exit_code = 0)
       IN result' = [result EXCEPT
              !.success = ok,
              !.exit_code = exec_result.exit_code,
              !.stdout = exec_result.stdout,
              !.stderr = exec_result.stderr,
              !.memory_usage_kb = exec_result.memory_usage_kb,
              !.cpu_time_ms = exec_result.cpu_time_ms,
              !.error_message = IF ~ok /\ exec_result.stderr = <<>>
                                THEN <<"Program exited with code ",
                                       ToString(exec_result.exit_code)>>
                                ELSE @]
    /\ fs' = cleanupSession(fs, ParentPath(compile_result.executable_path))
    /\ pc' = "returned"
    /\ UNCHANGED <<others, server, req, session_id, proc, child, stdout_pipe, stderr_pipe,
                   alarm_armed, parent_fds, compile_result, 
                   sandbox_enabled, docker_available, hist>>

\* the handler builds the response from the result and is ready for the next request
respond ==
    /\ server = "running" /\ pc = "returned"
    /\ pc' = "idle"
    /\ req' = NoReq
    /\ session_id' = NoSession
    /\ proc' = NoProc
    /\ child' = NoChild
    /\ compile_result' = CompilationResult
    /\ result' = ExecutionResult
    /\ hist' = NoHist
    /\ UNCHANGED <<others, server, fs, stdout_pipe, stderr_pipe, alarm_armed, parent_fds,
                   sandbox_enabled, docker_available>>

----------------------------------------------------------------------------

Next ==
    \/ \E code \in Codes : handleCompile(code)
    \/ \E code \in Codes, input \in Inputs : handleExecute(code, input)
    \/ \E id \in SessionIds, compiler \in {"g++", "clang++"},
          thrown \in {"none", "create_directories", "flags"}, opened \in BOOLEAN,
          written \in BOOLEAN : compile_begin(id, compiler, thrown, opened, written)
    \/ \E pipes \in {"ok", "first_fails", "second_fails"}, forked \in BOOLEAN,
          present \in BOOLEAN : executeProcess_spawn(pipes, forked, present)
    \/ child_write_stdout
    \/ child_write_stderr
    \/ \E data \in ServerStdin : child_read_stdin(data)
    \/ child_exit
    \/ alarm_expires
    \/ executeProcess_waitpid
    \/ executeProcess_read
    \/ compile_end
    \/ \E thrown \in BOOLEAN : execute_afterCompile(thrown)
    \/ execute_end
    \/ respond

Spec == Init /\ [][Next]_vars

----------------------------------------------------------------------------
(* Properties *)

Range(seq) == {seq[i] : i \in 1..Len(seq)}

\* the request in progress is an execute call that has returned to its handler
ExecuteReturned == pc = "returned" /\ req.api = "execute"

\* C1: in execute the artifact stage starts only after the compile call of the
\* same request has returned, and only if it returned success: the compiler
\* child is reaped before the artifact is spawned, and when compile returns
\* success=false no process is spawned for the artifact and execute returns
\* success=false with every compile error in its error message.
C1_ExecuteAfterCompile ==
    /\ (proc.purpose = "run" \/ hist.run_spawned)
          => (hist.compile_returned /\ compile_result.success)
    /\ (proc.purpose = "run" /\ pc = "executeProcess") => child.state = "reaped"
    /\ (ExecuteReturned /\ ~compile_result.success)
          => /\ ~hist.run_spawned
             /\ ~result.success
             /\ Range(compile_result.errors) \subseteq Range(result.error_message)

\* an execute call has returned after a compilation that reported an error
C1_Witness ==
    /\ ExecuteReturned /\ hist.compile_returned /\ ~compile_result.success
    /\ compile_result.errors # <<>>
    /\ proc.purpose = "compile" /\ child.state = "reaped"

\* C2: when compile or execute has returned, the session directory the call
\* created is gone and temp/ holds no more directories than before the call.
C2_SessionRemoved ==
    pc = "returned" =>
        /\ hist.session \in SessionIds => ~fs[hist.session].dir
        /\ Cardinality(Dirs(fs)) <= hist.dirs_before

\* C3: the parent never waits for the child to exit while the child is
\* blocked writing to a full stdout or stderr pipe.
C3_NoPipeDeadlock == ~(pc = "waitpid" /\ BlockedOnWrite)

\* C4: when the child has not exited by the deadline the call still returns,
\* with exit_code = -1: the serving process is alive to terminate the child,
\* and the result of the call says -1.
C4_TimeoutReturns ==
    hist.deadline =>
        /\ server = "running"
        /\ pc \in {"compile_end", "execute_end"} => proc.res.exit_code = -1

\* C5: expiry of the timeout never terminates the serving process, and a
\* program that outlived its timeout or crashed is reported with success=false.
C5_WorkerSurvives ==
    /\ server = "running"
    /\ (ExecuteReturned /\ (hist.deadline \/ hist.run_end[1] = "signal"))
          => ~result.success

\* C6: a program terminated by a signal yields success=false and a non-zero
\* exit_code.
C6_CrashReported ==
    (ExecuteReturned /\ hist.run_end[1] = "signal")
        => (~result.success /\ result.exit_code # 0)

\* C7: when sandboxing is enabled and the backend is reachable, the process
\* spawned for the artifact is the docker command line, never the executable
\* itself on the host.
C7_SandboxOnly ==
    (hist.run_spawned /\ sandbox_enabled /\ docker_available)
        => hist.run_args = docker_args(compile_result.executable_path)

\* C8: the outcome of a run carries a flag that says whether isolation was
\* degraded (the artifact ran on the host because the backend was unavailable).
C8_DegradedFlag ==
    (ExecuteReturned /\ hist.run_spawned)
        => /\ "degraded_isolation" \in DOMAIN result
           /\ result.degraded_isolation = ~(sandbox_enabled /\ docker_available)

\* C9: the outcome of a run has a timed_out flag and a resource-violation flag;
\* a run whose deadline passed returns with timed_out, and a program that
\* allocates beyond the ceiling is ended by the limiter, not by a normal exit.
C9_ResourceFlags ==
    /\ (ExecuteReturned /\ hist.run_spawned)
          => /\ {"timed_out", "resource_violation"} \subseteq DOMAIN result
             /\ result.timed_out = hist.deadline
    /\ (hist.deadline /\ proc.purpose = "run") => server = "running"
    /\ (proc.purpose = "run" /\ child.hog /\ child.state \in {"zombie", "reaped"})
          => hist.run_end[1] = "signal"

\* C10: a program that reads its standard input is given the request's input
\* and then end of file: it never blocks on the read, and what it prints is
\* computed from the request's input.
C10_InputPiped ==
    /\ child.reads # "blocked"
    /\ (ExecuteReturned /\ req.code = "cat" /\ hist.run_spawned
           /\ hist.run_end = <<"exit", 0>>)
          => result.stdout = <<EchoLine(req.input)>>

\* the source text compiles, and its program prints its lines and exits 0
\* without reading anything
CleanProgram(code) ==
    /\ Programs[code].cend = <<"exit", 0>>
    /\ Programs[code].rend = <<"exit", 0>>
    /\ ~Programs[code].reads

\* C11: for every program that compiles, prints X and exits 0, once execute
\* has started the program the call comes back (the serving process is not
\* terminated on the way) and returns success=true, exit_code=0 and a stdout
\* that contains every line of X.
C11_CleanRunSucceeds ==
    (req.api = "execute" /\ hist.run_spawned /\ CleanProgram(req.code))
        => /\ server = "running"
           /\ ExecuteReturned
                 => /\ result.success
                    /\ result.exit_code = 0
                    /\ Range(Programs[req.code].out) \subseteq Range(result.stdout)

\* compile has returned from the path that ran the compiler
CompilerRanAndReturned ==
    /\ pc \in {"returned", "execute"} /\ hist.compile_returned
    /\ proc.purpose = "compile" /\ hist.fault \notin {"create_directories", "open", "flags"}

\* C16: when compile returns after running the compiler, success is true
\* exactly when the exit code executeProcess reported is 0, whatever the
\* warning and error lines in the output.
C16_SuccessIsExitCode ==
    CompilerRanAndReturned => (compile_result.success = (proc.res.exit_code = 0))

\* the compiler ended with a non-zero exit code and printed no `error:` line,
\* and compile returned success=false
C16_Witness ==
    /\ CompilerRanAndReturned /\ child.state = "reaped"
    /\ proc.res.exit_code # 0 /\ compile_result.errors = <<>>
    /\ compile_result.compiler_output # <<>> /\ ~compile_result.success

\* C17: in every CompilationResult compile returns, on every path,
\* executable_path is non-empty exactly when success is true.
C17_PathIffSuccess ==
    (pc \in {"returned", "execute"} /\ hist.compile_returned)
        => ((compile_result.executable_path # <<>>) <=> compile_result.success)

\* compile returned a failure after the compiler ran: no executable_path
C17_Witness ==
    /\ CompilerRanAndReturned /\ child.state = "reaped"
    /\ ~compile_result.success /\ compile_result.executable_path = <<>>
    /\ compile_result.errors # <<>>

\* C18: every ExecutionResult execute returns, on every path, has
\* success = (exit_code = 0).
C18_SuccessIsExitZero ==
    ExecuteReturned => (result.success = (result.exit_code = 0))

\* the result the caller of the API in progress receives says success=false
ApiResultFailed == IF req.api = "execute" THEN ~result.success
                   ELSE ~compile_result.success

UserCodeErrors == {c \in Codes : Programs[c].cend[1] = "exit" /\ Programs[c].cend[2] # 0}

\* what execute returns (lines 171-179) for a source text the compiler rejected
CompileFailureResult(code) ==
    [ExecutionResult EXCEPT !.error_message =
        JoinErrors(<<"Compilation failed">>,
                   parseCompilerMessages(Programs[code].cerr, <<>>, <<>>)[2])]

\* C20: the result execute returns when the requested compiler binary does
\* not exist differs from the result it returns for every source text that a
\* compiler rejected, so that the caller can tell the two apart.
C20_MissingCompilerDistinct ==
    (ExecuteReturned /\ hist.compiler_missing)
        => \A c \in UserCodeErrors : result # CompileFailureResult(c)

----------------------------------------------------------------------------
(* ExecutionEngine::parseCompilerMessages on its own *)

MaxLines == 3                     \* lines of a compiler output

\* the lines a compiler prints: a warning, an error, the error g++ prints for
\* the directive `#error warning: deprecated`, and a linker's last line
CompilerLines == {"main.cpp:3: warning: unused variable",
                  "main.cpp:4: error: expected ;",
                  "main.cpp:1:2: error: #error warning: deprecated",
                  "collect2: ld returned 1 exit status"}

\* the compiler outputs of up to MaxLines lines
CompilerOutputs == UNION {[1..n -> CompilerLines] : n \in 0..MaxLines}

\* the state the engine is in while the function is looked at alone
EngineAtRest ==
    /\ server = "running" /\ pc = "idle" /\ req = NoReq
    /\ fs = [id \in SessionIds |-> NoDir] /\ session_id = NoSession
    /\ proc = NoProc /\ child = NoChild /\ stdout_pipe = <<>> /\ stderr_pipe = <<>>
    /\ alarm_armed = FALSE /\ parent_fds = {}
    /\ compile_result = CompilationResult /\ result = ExecutionResult
    /\ sandbox_enabled = TRUE /\ docker_available = FALSE /\ hist = NoHist
    /\ ee = <<>> /\ srv = <<>> /\ lg = <<>>

engine == <<server, pc, req, fs, session_id, proc, child, stdout_pipe, stderr_pipe,
            alarm_armed, parent_fds, compile_result, result, sandbox_enabled,
            docker_available, hist>>

ParseInit ==
    /\ EngineAtRest /\ wk = <<>>
    /\ \E output \in CompilerOutputs :
          fn = [compiler_output |-> output, warnings |-> <<>>, errors |-> <<>>,
                called |-> FALSE]

\* the call parseCompilerMessages(compiler_output, warnings, errors)
parse_call ==
    /\ ~fn.called
    /\ LET parsed == parseCompilerMessages(fn.compiler_output, fn.warnings, fn.errors)
       IN fn' = [fn EXCEPT !.warnings = parsed[1], !.errors = parsed[2],
                           !.called = TRUE]
    /\ UNCHANGED <<engine, wk, ee, srv, lg>>

ParseNext == parse_call

ParseSpec == ParseInit /\ [][ParseNext]_vars

\* C15: after parseCompilerMessages, warnings is the sequence of the lines of
\* the output that contain `warning:` and errors the sequence of the lines
\* that contain `error:`, each in the order of the output; a line with neither
\* token is in neither list.
C15_LinesClassifiedIndependently ==
    fn.called =>
        /\ fn.warnings = SelectSeq(fn.compiler_output, HasWarningToken)
        /\ fn.errors = SelectSeq(fn.compiler_output, HasErrorToken)

----------------------------------------------------------------------------
(* Two handler threads of the HTTP server inside ExecutionEngine::execute.  *)
(* compile and execute take no lock: the threads share the directory temp/  *)
(* and the alarm of the process, and nothing else.                          *)

Workers == {1, 2}

\* the programs the concurrent requests submit
ConcCodes == {"hello", "fail", "loop"}

\* a thread that serves no request
IdleWorker == [pc |-> "idle", code |-> "hello", session |-> NoSession,
               child |-> [state |-> "none", image |-> NoFile],
               spawned |-> FALSE, result |-> ExecutionResult]

\* file << code, with the text that ends up in main.cpp
WriteSourceText(files, id, code) == [files EXCEPT ![id].src = code]

\* the thread waits in waitpid for a child that has not ended
InWaitpid(w) == wk[w].pc \in {"compile_waitpid", "execute_waitpid"}
                /\ wk[w].child.state = "running"

\* the child the thread waits for never ends on its own
WaitsForever(w) == /\ wk[w].pc = "execute_waitpid" /\ wk[w].child.state = "running"
                   /\ wk[w].child.image # NoFile
                   /\ Programs[wk[w].child.image].rend = <<"loop">>

ConcInit ==
    /\ EngineAtRest /\ fn = <<>>
    /\ wk = [w \in Workers |-> IdleWorker]

shared == <<server, fs, alarm_armed>>

unshared == <<pc, req, session_id, proc, child, stdout_pipe, stderr_pipe, parent_fds,
              compile_result, result, sandbox_enabled, docker_available, hist, fn,
              ee, srv, lg>>

\* a handler thread takes a request and enters execute
w_handleExecute(w, code) ==
    /\ server = "running" /\ wk[w].pc = "idle"
    /\ wk' = [wk EXCEPT ![w] = [IdleWorker EXCEPT !.pc = "compile", !.code = code]]
    /\ UNCHANGED <<shared, unshared>>

\* compile, lines 93-129: generateSessionId, create_directories, the source
\* file, and executeProcess up to alarm(timeout_seconds) after the fork
w_compile(w, id) ==
    /\ server = "running" /\ wk[w].pc = "compile"
    /\ fs' = WriteSourceText(create_directories(fs, id), id, wk[w].code)
    /\ alarm_armed' = TRUE
    /\ wk' = [wk EXCEPT ![w].session = id,
                        ![w].pc = "compile_waitpid",
                        ![w].child = [state |-> "running", image |-> NoFile]]
    /\ UNCHANGED <<server, unshared>>

\* the compiler reads main.cpp of the directory it was given and writes main
w_compiler_exit(w) ==
    /\ server = "running" /\ wk[w].pc = "compile_waitpid"
    /\ wk[w].child.state = "running"
    /\ LET id == wk[w].session
           found == fs[id].dir /\ fs[id].src # NoFile
       IN /\ fs' = IF found THEN [fs EXCEPT ![id].bin = fs[id].src] ELSE fs
          /\ wk' = [wk EXCEPT ![w].child.state = IF found THEN "exit 0" ELSE "exit 1"]
    /\ UNCHANGED <<server, alarm_armed, unshared>>

\* waitpid returns in compile's executeProcess, alarm(0), and lines 131-178
w_compile_waitpid(w) ==
    /\ server = "running" /\ wk[w].pc = "compile_waitpid"
    /\ wk[w].child.state \in {"exit 0", "exit 1"}
    /\ alarm_armed' = FALSE
    /\ wk' = IF wk[w].child.state = "exit 0"
             THEN [wk EXCEPT ![w].pc = "execute"]
             ELSE [wk EXCEPT ![w].pc = "returned",
                             ![w].result.error_message = <<"Compilation failed">>]
    /\ UNCHANGED <<server, fs, unshared>>

\* execute, lines 184-189, and executeProcess up to alarm(timeout_seconds):
\* execvp loads whatever temp/<session>/main is at this moment
w_execute_spawn(w) ==
    /\ server = "running" /\ wk[w].pc = "execute"
    /\ LET id == wk[w].session
       IN wk' = [wk EXCEPT ![w].pc = "execute_waitpid",
                           ![w].spawned = TRUE,
                           ![w].child = [state |-> "running",
                                         image |-> IF fs[id].dir THEN fs[id].bin
                                                   ELSE NoFile]]
    /\ alarm_armed' = TRUE
    /\ UNCHANGED <<server, fs, unshared>>

\* the program ends (or execvp failed and the child exits with 127)
w_program_exit(w) ==
    /\ server = "running" /\ wk[w].pc = "execute_waitpid"
    /\ wk[w].child.state = "running"
    /\ wk[w].child.image # NoFile => Programs[wk[w].child.image].rend[1] # "loop"
    /\ wk' = [wk EXCEPT ![w].child.state = "zombie"]
    /\ UNCHANGED <<shared, unshared>>

\* waitpid returns in execute's executeProcess, alarm(0), the pipes are read,
\* and lines 191-210 with cleanupSession
w_execute_waitpid(w) ==
    /\ server = "running" /\ wk[w].pc = "execute_waitpid"
    /\ wk[w].child.state = "zombie"
    /\ alarm_armed' = FALSE
    /\ LET image == wk[w].child.image
           exit_code == IF image = NoFile THEN EXEC_FAILED
                        ELSE WEXITSTATUS(WaitStatus(Programs[image].rend))
       IN wk' = [wk EXCEPT
              ![w].pc = "returned",
              ![w].child.state = "reaped",
              ![w].result = [@ EXCEPT
                  !.success = (exit_code = 0),
                  !.exit_code = exit_code,
                  !.stdout = IF image = NoFile THEN <<>> ELSE Programs[image].out,
                  !.stderr = IF image = NoFile THEN <<>> ELSE Programs[image].err]]
    /\ fs' = cleanupSession(fs, WorkDir(wk[w].session))
    /\ UNCHANGED <<server, unshared>>

\* the pending alarm of the process runs out while a thread waits for a child
\* that does not end
w_alarm_expires ==
    /\ server = "running" /\ alarm_armed
    /\ \E w \in Workers : WaitsForever(w)
    /\ alarm_armed' = FALSE
    /\ server' = IF SignalDisposition("SIGALRM") = "SIG_DFL" THEN "terminated"
                 ELSE server
    /\ UNCHANGED <<fs, wk, unshared>>

\* the handler sends the response
w_respond(w) ==
    /\ server = "running" /\ wk[w].pc = "returned"
    /\ wk' = [wk EXCEPT ![w] = IdleWorker]
    /\ UNCHANGED <<shared, unshared>>

ConcNext ==
    \/ \E w \in Workers, code \in ConcCodes : w_handleExecute(w, code)
    \/ \E w \in Workers, id \in SessionIds : w_compile(w, id)
    \/ \E w \in Workers : w_compiler_exit(w)
    \/ \E w \in Workers : w_compile_waitpid(w)
    \/ \E w \in Workers : w_execute_spawn(w)
    \/ \E w \in Workers : w_program_exit(w)
    \/ \E w \in Workers : w_execute_waitpid(w)
    \/ w_alarm_expires
    \/ \E w \in Workers : w_respond(w)

ConcSpec == ConcInit /\ [][ConcNext]_vars

\* the thread is inside a call that has acquired its session
Live(w) == wk[w].pc \notin {"idle", "compile"}

\* C12: at every moment the session directories of two requests that are in
\* flight are distinct.
C12_WorkspacesDistinct ==
    \A v, w \in Workers :
        (v # w /\ Live(v) /\ Live(w)) => wk[v].session # wk[w].session

\* C13: a run that has returned after starting its artifact carries the
\* stdout, the stderr and the exit code of the program of its own request.
C13_NoCrossTalk ==
    \A w \in Workers :
        (wk[w].pc = "returned" /\ wk[w].spawned) =>
            /\ wk[w].result.stdout = Programs[wk[w].code].out
            /\ wk[w].result.stderr = Programs[wk[w].code].err
            /\ Programs[wk[w].code].rend = <<"exit", wk[w].result.exit_code>>

\* C14: while a call waits in waitpid for a child that has not ended, the
\* alarm that bounds its wait is pending: no other call has cancelled it.
C14_WaitBounded ==
    \A w \in Workers : (server = "running" /\ InWaitpid(w)) => alarm_armed

----------------------------------------------------------------------------
(* ExecutionEngine::buildCompileCommand on its own *)

MaxFlags == 2                     \* entries of options["flags"]

\* values of options["compiler"], ["standard"], ["optimization"], ["flags"]
CompilerNames == {"g++", "clang++", "gcc"}
Standards == {"c++17", "c++20"}
Optimizations == {"O0", "O2"}
ExtraFlags == UNION {[1..n -> {<<"-O3">>, <<"-w">>}] : n \in 0..MaxFlags}

BuildInit ==
    /\ EngineAtRest /\ wk = <<>>
    /\ \E id \in SessionIds, compiler \in CompilerNames, standard \in Standards,
          optimization \in Optimizations, debug_info \in BOOLEAN,
          extra_flags \in ExtraFlags :
          fn = [source_file |-> SourceFile(id), output_file |-> OutputFile(id),
                compiler |-> compiler, standard |-> standard,
                optimization |-> optimization, debug_info |-> debug_info,
                extra_flags |-> extra_flags, called |-> FALSE, args |-> <<>>]

\* the call of lines 123-125
build_call ==
    /\ ~fn.called
    /\ fn' = [fn EXCEPT !.called = TRUE,
                        !.args = buildCompileCommand(fn.source_file, fn.output_file,
                                     fn.compiler, fn.standard, fn.optimization,
                                     fn.debug_info, fn.extra_flags)]
    /\ UNCHANGED <<engine, wk, ee, srv, lg>>

BuildNext == build_call

BuildSpec == BuildInit /\ [][BuildNext]_vars

\* C23: the argument vector is, position by position: the compiler binary
\* (the clang path for clang++, the default compiler path otherwise),
\* -std=<standard>, -<optimization>, -g exactly when debug_info, -Wall,
\* -Wextra, -pedantic, the extra flags in their order, the source path, -o,
\* the output path.
C23_CommandLayout ==
    fn.called =>
        LET args == fn.args
            g == IF fn.debug_info THEN 1 ELSE 0
            n == Len(fn.extra_flags)
        IN /\ Len(args) = 9 + g + n
           /\ args[1] = IF fn.compiler = "clang++" THEN <<"/usr/bin/clang++">>
                         ELSE <<"/usr/bin/g++">>
           /\ args[2] = <<"-std=", fn.standard>>
           /\ args[3] = <<"-", fn.optimization>>
           /\ (<<"-g">> \in Range(args)) <=> fn.debug_info
           /\ fn.debug_info => args[4] = <<"-g">>
           /\ SubSeq(args, 4 + g, 6 + g) = <<<<"-Wall">>, <<"-Wextra">>, <<"-pedantic">>>>
           /\ SubSeq(args, 7 + g, 6 + g + n) = fn.extra_flags
           /\ SubSeq(args, 7 + g + n, 9 + g + n) = <<fn.source_file, <<"-o">>, fn.output_file>>

\* a command line was built for clang++ with -g and two extra flags
C23_Witness ==
    /\ fn.called /\ fn.compiler = "clang++" /\ fn.debug_info
    /\ Len(fn.extra_flags) = 2 /\ fn.extra_flags[1] # fn.extra_flags[2]
    /\ Len(fn.args) = 12

----------------------------------------------------------------------------
(* ExecutionEngine::executeProcess called on its own, as testCompilation,   *)
(* compile and executeDirectly call it                                     *)

\* the programs whose executable lies in temp/a1
ProcPrograms == {"hello", "fail", "segv", "loop", "bigout"}

\* the argument vectors of the calls: none, an executable, a missing file
ProcArgs == {<<>>, <<OutputFile("a1")>>, <<OutputFile("b2")>>}

ProcInit ==
    /\ server = "running" /\ pc = "idle" /\ req = NoReq
    /\ \E code \in ProcPrograms :
          fs = [id \in SessionIds |->
                   IF id = "a1" THEN [dir |-> TRUE, src |-> TRUE, bin |-> code]
                   ELSE NoDir]
    /\ session_id = NoSession
    /\ proc = NoProc /\ child = NoChild /\ stdout_pipe = <<>> /\ stderr_pipe = <<>>
    /\ alarm_armed = FALSE /\ parent_fds = {}
    /\ compile_result = CompilationResult /\ result = ExecutionResult
    /\ sandbox_enabled = FALSE /\ docker_available = FALSE /\ hist = NoHist
    /\ wk = <<>> /\ fn = <<>> /\ ee = <<>> /\ srv = <<>> /\ lg = <<>>

\* lines 375-377: the call, with result.exit_code = -1
executeProcess_call(args) ==
    /\ server = "running" /\ pc = "idle"
    /\ proc' = [purpose |-> "run", args |-> args, res |-> ProcessResult]
    /\ child' = NoChild
    /\ hist' = NoHist
    /\ pc' = "executeProcess"
    /\ UNCHANGED <<others, server, req, fs, session_id, stdout_pipe, stderr_pipe,
                   alarm_armed, parent_fds, compile_result, result, sandbox_enabled,
                   docker_available>>

\* return result (lines 380, 393, 400, 456)
executeProcess_return ==
    /\ server = "running" /\ pc = ReturnSite(proc.purpose)
    /\ pc' = "idle"
    /\ UNCHANGED <<others, server, req, fs, session_id, proc, child, stdout_pipe,
                   stderr_pipe, alarm_armed, parent_fds, compile_result, result,
                   sandbox_enabled, docker_available, hist>>

ProcNext ==
    \/ \E args \in ProcArgs : executeProcess_call(args)
    \/ \E pipes \in {"ok", "first_fails", "second_fails"}, forked \in BOOLEAN,
          present \in BOOLEAN : executeProcess_spawn(pipes, forked, present)
    \/ child_write_stdout
    \/ child_write_stderr
    \/ child_exit
    \/ alarm_expires
    \/ executeProcess_waitpid
    \/ executeProcess_read
    \/ executeProcess_return

ProcSpec == ProcInit /\ [][ProcNext]_vars

\* executeProcess is at a return statement
AtReturn == pc = ReturnSite(proc.purpose) /\ proc.purpose # "none"

\* execvp finds no file to execute
ExecFails ==
    /\ proc.args # <<>> /\ hist.fault = "none"
    /\ LET id == SessionOf(proc.args[1])
       IN ~(id \in SessionIds /\ fs[id].dir /\ fs[id].bin # NoFile)

\* C24: a call that forked has reaped its child when it returns, and no call
\* ends (by returning, or with the process that made it) while its child is
\* still running or is an unreaped zombie, on the timeout path as well.
C24_ChildReaped ==
    /\ (AtReturn /\ child.state # "none") => child.state = "reaped"
    /\ ~(server = "terminated" /\ child.state \in {"running", "zombie"})

\* C25: at the return of executeProcess an empty argument vector, a failed
\* pipe() and a failed fork() give exit_code -1, a failed exec gives 127,
\* and none of them gives 0.
C25_SpawnFailureCodes ==
    AtReturn =>
        /\ (proc.args = <<>> \/ hist.fault \in {"pipe", "fork"})
              => (proc.res.exit_code = -1 /\ child.state = "none")
        /\ ExecFails => proc.res.exit_code = 127
        /\ (proc.args = <<>> \/ hist.fault \in {"pipe", "fork"} \/ ExecFails)
              => proc.res.exit_code # 0

\* executeProcess returns 127 for an executable that does not exist
C25_Witness ==
    /\ AtReturn /\ ExecFails /\ child.state = "reaped"
    /\ proc.args = <<OutputFile("b2")>> /\ proc.res.exit_code = EXEC_FAILED

\* C30: at every return of executeProcess the parent holds none of the pipe
\* descriptors the call created.
C30_NoDescriptorLeft == AtReturn => parent_fds = {}

\* C26: when the source file cannot be opened or is not completely written,
\* compile spawns no compiler process, and it returns success=false with an
\* error entry.
C26_WriteFailureReported ==
    hist.fault \in {"open", "write"} =>
        /\ proc.purpose # "compile"
        /\ (pc \in {"returned", "execute"} /\ hist.compile_returned)
              => (~compile_result.success /\ compile_result.errors # <<>>)

----------------------------------------------------------------------------
(* ExecutionEngine::initialize, called any number of times.  The calls are  *)
(* serialised by engine_mutex_ (line 38).                                   *)

\* the engine after its constructor: initialized_(false)
NewEngine == [initialized_ |-> FALSE, pc |-> "idle", ret |-> "none", was |-> FALSE,
              gpp |-> TRUE, clang |-> TRUE, docker |-> TRUE, sandbox |-> TRUE,
              validated |-> FALSE, tested |-> FALSE, sound |-> TRUE]

InitInit ==
    /\ server = "running" /\ pc = "idle" /\ req = NoReq
    /\ fs = [id \in SessionIds |-> NoDir] /\ session_id = NoSession
    /\ proc = NoProc /\ child = NoChild /\ stdout_pipe = <<>> /\ stderr_pipe = <<>>
    /\ alarm_armed = FALSE /\ parent_fds = {}
    /\ compile_result = CompilationResult /\ result = ExecutionResult
    /\ sandbox_enabled = TRUE /\ docker_available = FALSE /\ hist = NoHist
    /\ wk = <<>> /\ fn = <<>> /\ srv = <<>> /\ lg = <<>>
    /\ ee = NewEngine

\* an initialize that never takes the early return
AlreadyInitialized_Never(e) == FALSE

\* line 40: if (initialized_) return true
AlreadyInitialized(e) == e.initialized_

\* lines 37-46: the call; the files and the backend it will find are
\* whatever the host has at that moment
initialize_call(gpp, clang, docker, sandbox) ==
    /\ ee.pc = "idle"
    /\ ee' = IF AlreadyInitialized(ee)
             THEN [ee EXCEPT !.pc = "returned", !.ret = TRUE, !.was = ee.initialized_,
                             !.validated = FALSE, !.tested = FALSE, !.sound = TRUE]
             ELSE [ee EXCEPT !.pc = "createDirectories", !.ret = "none",
                             !.was = ee.initialized_,
                             !.gpp = gpp, !.clang = clang, !.docker = docker,
                             !.sandbox = sandbox, !.validated = FALSE,
                             !.tested = FALSE, !.sound = TRUE]
    /\ UNCHANGED <<engine, wk, fn, srv, lg>>

\* lines 50 and 83-96: createDirectories, whose create_directories can throw
\* into the catch of line 77
initialize_createDirectories(thrown) ==
    /\ ee.pc = "createDirectories"
    /\ ee' = IF thrown THEN [ee EXCEPT !.pc = "returned", !.ret = FALSE, !.sound = FALSE]
             ELSE [ee EXCEPT !.pc = "validateCompilers"]
    /\ UNCHANGED <<engine, wk, fn, srv, lg>>

\* lines 53-56 and 233-249: false without g++, a warning without clang++
initialize_validateCompilers ==
    /\ ee.pc = "validateCompilers"
    /\ ee' = IF ~ee.gpp
             THEN [ee EXCEPT !.pc = "returned", !.ret = FALSE, !.validated = TRUE]
             ELSE [ee EXCEPT !.pc = IF ee.sandbox THEN "initializeDocker"
                                    ELSE "testCompilation",
                             !.validated = TRUE]
    /\ UNCHANGED <<engine, wk, fn, srv, lg>>

\* lines 59-64 and 251-282: the value of initializeDocker only chooses
\* between a warning and nothing
initialize_initializeDocker ==
    /\ ee.pc = "initializeDocker"
    /\ ee' = [ee EXCEPT !.pc = "testCompilation"]
    /\ UNCHANGED <<engine, wk, fn, srv, lg>>

\* lines 67-75 and 284-311: testCompilation returns compile's success;
\* `success` is the result of compile(test_code, options)
initialize_testCompilation(success) ==
    /\ ee.pc = "testCompilation"
    /\ ee' = IF success
             THEN [ee EXCEPT !.pc = "returned", !.ret = TRUE, !.tested = TRUE,
                             !.initialized_ = TRUE]
             ELSE [ee EXCEPT !.pc = "returned", !.ret = FALSE, !.tested = TRUE,
                             !.sound = FALSE]
    /\ UNCHANGED <<engine, wk, fn, srv, lg>>

\* the caller has the value
initialize_return ==
    /\ ee.pc = "returned"
    /\ ee' = [ee EXCEPT !.pc = "idle"]
    /\ UNCHANGED <<engine, wk, fn, srv, lg>>

InitNext ==
    \/ \E gpp \in BOOLEAN, clang \in BOOLEAN, docker \in BOOLEAN, sandbox \in BOOLEAN :
          initialize_call(gpp, clang, docker, sandbox)
    \/ \E thrown \in BOOLEAN : initialize_createDirectories(thrown)
    \/ initialize_validateCompilers
    \/ initialize_initializeDocker
    \/ \E success \in BOOLEAN : initialize_testCompilation(success)
    \/ initialize_return

InitSpec == InitInit /\ [][InitNext]_vars

\* what holds of every call of initialize that has returned
InitializeReturned ==
    ee.pc = "returned" =>
        /\ ee.was => (ee.ret = TRUE /\ ~ee.validated /\ ~ee.tested)
        /\ ee.ret = FALSE => ~ee.initialized_
        /\ ee.ret = TRUE => ee.initialized_
        /\ (~ee.was /\ ee.gpp /\ ee.sound) => ee.ret = TRUE

\* C29: initialized_ never goes from true to false; a call made when it is
\* true returns true without validating the compilers or compiling the test
\* program; a call that returns false leaves it false; and a call that finds
\* g++ and whose directories and test compilation succeed returns true
\* whether or not clang++ and the Docker backend are there.
C29_InitializeIdempotent ==
    /\ [](InitializeReturned)
    /\ [][ee.initialized_ => ee'.initialized_]_vars

\* a second call has returned true at once, on a host without clang++ and
\* without Docker
C29_Witness ==
    /\ ee.pc = "returned" /\ ee.was /\ ee.ret = TRUE /\ ee.initialized_
    /\ ~ee.clang /\ ~ee.docker /\ ee.sandbox /\ ~ee.validated

----------------------------------------------------------------------------
(* main in daemon mode (main.cpp 217-262), the server thread inside         *)
(* Server::start, and signalHandler with Server::stop                      *)

MaxSignals == 2                   \* SIGINT / SIGTERM deliveries

\* the process after setupSignalHandlers, before g_server is created
ServerInit ==
    /\ server = "running" /\ pc = "idle" /\ req = NoReq
    /\ fs = [id \in SessionIds |-> NoDir] /\ session_id = NoSession
    /\ proc = NoProc /\ child = NoChild /\ stdout_pipe = <<>> /\ stderr_pipe = <<>>
    /\ alarm_armed = FALSE /\ parent_fds = {}
    /\ compile_result = CompilationResult /\ result = ExecutionResult
    /\ sandbox_enabled = TRUE /\ docker_available = FALSE /\ hist = NoHist
    /\ wk = <<>> /\ fn = <<>> /\ ee = <<>> /\ lg = <<>>
    /\ srv = [main |-> "create", thread |-> "none", handler |-> "idle",
              g_server |-> FALSE, g_shutdown_requested |-> FALSE, running_ |-> FALSE,
              http |-> "idle", signals |-> 0, handled |-> FALSE]

\* main.cpp 233: g_server = std::make_unique<Server>(host, port)
main_create ==
    /\ srv.main = "create"
    /\ srv' = [srv EXCEPT !.main = "spawn", !.g_server = TRUE]
    /\ UNCHANGED <<engine, wk, fn, ee, lg>>

\* main.cpp 244: std::thread server_thread(...)
main_spawn ==
    /\ srv.main = "spawn"
    /\ srv' = [srv EXCEPT !.main = "loop", !.thread = "start"]
    /\ UNCHANGED <<engine, wk, fn, ee, lg>>

\* main.cpp 254-256: the polling loop ends when g_shutdown_requested is set
main_loop ==
    /\ srv.main = "loop" /\ srv.g_shutdown_requested
    /\ srv' = [srv EXCEPT !.main = "join"]
    /\ UNCHANGED <<engine, wk, fn, ee, lg>>

\* main.cpp 258-265: join returns when the server thread has ended; return 0
main_join ==
    /\ srv.main = "join" /\ srv.thread = "done"
    /\ srv' = [srv EXCEPT !.main = "exited"]
    /\ UNCHANGED <<engine, wk, fn, ee, lg>>

\* Server::start, lines 53-56: if (running_) return
start_check ==
    /\ srv.thread = "start"
    /\ srv' = [srv EXCEPT !.thread = IF srv.running_ THEN "done" ELSE "set_running"]
    /\ UNCHANGED <<engine, wk, fn, ee, lg>>

\* Server::start, line 58: running_ = true
start_set_running ==
    /\ srv.thread = "set_running"
    /\ srv' = [srv EXCEPT !.running_ = TRUE, !.thread = "listen"]
    /\ UNCHANGED <<engine, wk, fn, ee, lg>>

\* Server::start, lines 63-67: listen binds and serves, or fails (the port is
\* taken, or the httplib server was stopped for good): running_ = false and
\* the exception is caught in the thread (main.cpp 247-250)
start_listen(bound) ==
    /\ srv.thread = "listen"
    /\ srv' = IF bound /\ srv.http = "idle"
              THEN [srv EXCEPT !.thread = "listening", !.http = "listening"]
              ELSE [srv EXCEPT !.thread = "done", !.running_ = FALSE,
                               !.g_shutdown_requested = TRUE]
    /\ UNCHANGED <<engine, wk, fn, ee, lg>>

\* listen returns true after httplib's stop, and start returns
start_listen_returns ==
    /\ srv.thread = "listening" /\ srv.http = "stopped"
    /\ srv' = [srv EXCEPT !.thread = "done"]
    /\ UNCHANGED <<engine, wk, fn, ee, lg>>

\* SIGINT or SIGTERM is delivered and signalHandler starts (main.cpp 25-35)
signal_delivered ==
    /\ srv.handler = "idle" /\ srv.main # "exited" /\ srv.signals < MaxSignals
    /\ srv' = [srv EXCEPT !.handler = "set_flag", !.signals = @ + 1]
    /\ UNCHANGED <<engine, wk, fn, ee, lg>>

\* main.cpp 37-39: g_shutdown_requested = true; if (g_server)
signalHandler_set_flag ==
    /\ srv.handler = "set_flag"
    /\ srv' = [srv EXCEPT !.g_shutdown_requested = TRUE,
                          !.handler = IF srv.g_server THEN "stop_check" ELSE "return"]
    /\ UNCHANGED <<engine, wk, fn, ee, lg>>

\* Server::stop, lines 73-75: if (!running_) return
stop_check ==
    /\ srv.handler = "stop_check"
    /\ srv' = [srv EXCEPT !.handler = IF srv.running_ THEN "stop_set" ELSE "return"]
    /\ UNCHANGED <<engine, wk, fn, ee, lg>>

\* Server::stop, line 79: running_ = false
stop_set ==
    /\ srv.handler = "stop_set"
    /\ srv' = [srv EXCEPT !.running_ = FALSE, !.handler = "stop_http"]
    /\ UNCHANGED <<engine, wk, fn, ee, lg>>

\* Server::stop, lines 81-83: server_->stop() ends a listen in progress;
\* `sticky` says whether a stop before listen makes the later listen fail
stop_http(sticky) ==
    /\ srv.handler = "stop_http"
    /\ srv' = [srv EXCEPT !.handler = "return",
                          !.http = IF srv.http = "listening" \/ sticky THEN "stopped"
                                   ELSE @]
    /\ UNCHANGED <<engine, wk, fn, ee, lg>>

\* signalHandler returns
signalHandler_return ==
    /\ srv.handler = "return"
    /\ srv' = [srv EXCEPT !.handler = "idle", !.handled = TRUE]
    /\ UNCHANGED <<engine, wk, fn, ee, lg>>

\* the steps of the program's own threads and of a handler that has started
ServerSteps ==
    \/ main_create \/ main_spawn \/ main_loop \/ main_join
    \/ start_check \/ start_set_running \/ (\E bound \in BOOLEAN : start_listen(bound))
    \/ start_listen_returns
    \/ signalHandler_set_flag \/ stop_check \/ stop_set
    \/ (\E sticky \in BOOLEAN : stop_http(sticky)) \/ signalHandler_return

ServerNext == ServerSteps \/ signal_delivered

\* every thread that can take a step takes one; signals come when they come
ServerSpec == ServerInit /\ [][ServerNext]_vars /\ WF_vars(ServerSteps)

\* C28: in daemon mode, once signalHandler has handled a shutdown signal the
\* process eventually exits: the server thread ends and main's join returns.
C28_ShutdownExits == srv.handled ~> (srv.main = "exited")

----------------------------------------------------------------------------
(* Logger::log with file logging and rotation, called by the handler        *)
(* threads at the boundaries of compile and execute                        *)

MaxLogLines == 2                  \* max_file_size_, in lines of the log file

\* enum class LogLevel
DEBUG == 0
INFO == 1
WARNING == 2
ERROR == 3

\* the levels of the calls compile and execute make (info, warning, error)
StageLevels == {INFO, WARNING, ERROR}

\* what locking a std::mutex the thread already owns can do: the behaviour is
\* undefined; implementations block forever, or throw std::system_error
\* (resource_deadlock_would_occur), or let the thread through
RelockOutcomes == {"blocks", "system_error", "acquired"}

\* the size of the log file after one more line; sizes beyond max_file_size_
\* are not told apart
Written(file_size) == IF file_size < MaxLogLines THEN file_size + 1 ELSE file_size

LogInit ==
    /\ server = "running" /\ pc = "idle" /\ req = NoReq
    /\ fs = [id \in SessionIds |-> NoDir] /\ session_id = NoSession
    /\ proc = NoProc /\ child = NoChild /\ stdout_pipe = <<>> /\ stderr_pipe = <<>>
    /\ alarm_armed = FALSE /\ parent_fds = {}
    /\ compile_result = CompilationResult /\ result = ExecutionResult
    /\ sandbox_enabled = TRUE /\ docker_available = FALSE /\ hist = NoHist
    /\ wk = <<>> /\ fn = <<>> /\ ee = <<>> /\ srv = <<>>
    /\ \E level \in {INFO, ERROR}, to_file \in BOOLEAN :
          lg = [level_ |-> level, log_to_file_ |-> to_file, is_open |-> to_file,
                file_size |-> 0, backups |-> 0, log_mutex_ |-> 0,
                at |-> [t \in Workers |-> "idle"],
                level |-> [t \in Workers |-> INFO],
                rotated |-> [t \in Workers |-> FALSE]]

\* lines 109-113: the level test, before the lock
log_call(t, level) ==
    /\ lg.at[t] = "idle"
    /\ lg' = [lg EXCEPT !.at[t] = IF level < lg.level_ THEN "idle" ELSE "lock",
                        !.level[t] = level, !.rotated[t] = FALSE]
    /\ UNCHANGED <<engine, wk, fn, ee, srv>>

\* line 115: std::lock_guard<std::mutex> lock(log_mutex_)
log_lock(t) ==
    /\ lg.at[t] = "lock" /\ lg.log_mutex_ = 0
    /\ lg' = [lg EXCEPT !.log_mutex_ = t, !.at[t] = "logToFile"]
    /\ UNCHANGED <<engine, wk, fn, ee, srv>>

\* lines 117-128 and 178-200: the console, then logToFile with
\* checkAndRotateLogFile; without rotation the line is written and log returns
log_logToFile(t) ==
    /\ lg.at[t] = "logToFile"
    /\ lg' = IF lg.log_to_file_ /\ lg.is_open
             THEN IF lg.file_size >= MaxLogLines
                  THEN [lg EXCEPT !.at[t] = "rotateLogFile"]
                  ELSE [lg EXCEPT !.file_size = Written(@), !.at[t] = "idle",
                                  !.log_mutex_ = 0]
             ELSE [lg EXCEPT !.at[t] = "idle", !.log_mutex_ = 0]
    /\ UNCHANGED <<engine, wk, fn, ee, srv>>

\* lines 207-241: close, shift the backups, rename the file, open a new one;
\* `renamed` says whether std::filesystem did it without throwing and
\* `reopened` whether the open succeeded.  With the new file open, line 241
\* calls log("Logger", INFO, ...) from inside the locked region
log_rotateLogFile(t, renamed, reopened) ==
    /\ lg.at[t] = "rotateLogFile"
    /\ lg' = IF ~reopened
             THEN [lg EXCEPT !.is_open = FALSE, !.log_to_file_ = FALSE,
                             !.at[t] = "write"]
             ELSE IF ~renamed
             THEN [lg EXCEPT !.is_open = TRUE, !.at[t] = "write"]
             ELSE [lg EXCEPT !.is_open = TRUE, !.file_size = 0, !.backups = 1,
                             !.rotated[t] = TRUE,
                             !.at[t] = IF INFO < lg.level_ THEN "write" ELSE "relock"]
    /\ UNCHANGED <<engine, wk, fn, ee, srv>>

\* line 115 again, in the call of line 241: the thread locks log_mutex_,
\* which it owns
log_relock(t, outcome) ==
    /\ lg.at[t] = "relock" /\ lg.log_mutex_ = t
    /\ lg' = IF outcome = "blocks" THEN [lg EXCEPT !.at[t] = "blocked"]
             ELSE IF outcome = "system_error"
             THEN \* caught at line 248: the file is opened once more
                  [lg EXCEPT !.at[t] = "write"]
             ELSE \* "Log file rotated" is written by the inner call
                  [lg EXCEPT !.file_size = Written(@), !.at[t] = "write"]
    /\ UNCHANGED <<engine, wk, fn, ee, srv>>

\* lines 186-187 after the rotation, and the return of log
log_write(t) ==
    /\ lg.at[t] = "write"
    /\ lg' = [lg EXCEPT !.file_size = IF lg.is_open THEN Written(@) ELSE @,
                        !.at[t] = "idle", !.log_mutex_ = 0]
    /\ UNCHANGED <<engine, wk, fn, ee, srv>>

LogNext ==
    \/ \E t \in Workers, level \in StageLevels : log_call(t, level)
    \/ \E t \in Workers : log_lock(t)
    \/ \E t \in Workers : log_logToFile(t)
    \/ \E t \in Workers, renamed \in BOOLEAN, reopened \in BOOLEAN :
          log_rotateLogFile(t, renamed, reopened)
    \/ \E t \in Workers, outcome \in RelockOutcomes : log_relock(t, outcome)
    \/ \E t \in Workers : log_write(t)

LogSpec == LogInit /\ [][LogNext]_vars

\* C21: no thread inside a log call is blocked for ever: it never waits for
\* log_mutex_ while it is itself the owner of that mutex.
C21_LogCallReturns == \A t \in Workers : lg.at[t] # "blocked"

\* server.threads as set by CPP_ENGINE_THREADS=1 (config.cpp 184-186); no
\* statement of the server or of the engine reads it
threads == 1

\* C22: the number of sessions that are acquired and not released never
\* exceeds the configured limit, so a request that arrives at the limit
\* starts no child process.
C22_SessionsBounded == Cardinality({w \in Workers : Live(w)}) <= threads

----------------------------------------------------------------------------
(* Two threads inside ExecutionEngine::executeProcess: the descriptors a   *)
(* forked child inherits are those open in the process at the fork         *)

IdleCall == [pc |-> "idle", write_ends |-> FALSE, child |-> "none", loops |-> FALSE,
             inherited |-> {}]

PipeInit ==
    /\ server = "running" /\ pc = "idle" /\ req = NoReq
    /\ fs = [id \in SessionIds |-> NoDir] /\ session_id = NoSession
    /\ proc = NoProc /\ child = NoChild /\ stdout_pipe = <<>> /\ stderr_pipe = <<>>
    /\ alarm_armed = FALSE /\ parent_fds = {}
    /\ compile_result = CompilationResult /\ result = ExecutionResult
    /\ sandbox_enabled = TRUE /\ docker_available = FALSE /\ hist = NoHist
    /\ fn = <<>> /\ ee = <<>> /\ srv = <<>> /\ lg = <<>>
    /\ wk = [w \in Workers |-> IdleCall]

\* the calls whose pipe write ends are open in the serving process
OpenWriteEnds == {v \in Workers : wk[v].write_ends}

\* line 392: pipe(stdout_pipe), pipe(stderr_pipe); no O_CLOEXEC
p_pipe(w) ==
    /\ wk[w].pc = "idle"
    /\ wk' = [wk EXCEPT ![w] = [IdleCall EXCEPT !.pc = "fork", !.write_ends = TRUE]]
    /\ UNCHANGED <<engine, fn, ee, srv, lg>>

\* lines 396-415: fork; the child closes the descriptors of its own call's
\* pipes (after dup2) and execs with every other descriptor it inherited
p_fork(w, loops) ==
    /\ wk[w].pc = "fork"
    /\ wk' = [wk EXCEPT ![w].pc = "close", ![w].child = "running",
                        ![w].loops = loops,
                        ![w].inherited = OpenWriteEnds \ {w}]
    /\ UNCHANGED <<engine, fn, ee, srv, lg>>

\* lines 418-419: the parent closes the write ends
p_close(w) ==
    /\ wk[w].pc = "close"
    /\ wk' = [wk EXCEPT ![w].pc = "waitpid", ![w].write_ends = FALSE]
    /\ UNCHANGED <<engine, fn, ee, srv, lg>>

\* the child of the call ends, which closes all its descriptors
p_child_exit(w) ==
    /\ wk[w].child = "running" /\ ~wk[w].loops
    /\ wk' = [wk EXCEPT ![w].child = "zombie", ![w].inherited = {}]
    /\ UNCHANGED <<engine, fn, ee, srv, lg>>

\* line 425: waitpid returns
p_waitpid(w) ==
    /\ wk[w].pc = "waitpid" /\ wk[w].child = "zombie"
    /\ wk' = [wk EXCEPT ![w].pc = "read", ![w].child = "reaped"]
    /\ UNCHANGED <<engine, fn, ee, srv, lg>>

\* the write end of the call's pipes is still open somewhere
WriteEndHeld(w) == \E v \in Workers : v # w /\ wk[v].child = "running"
                                       /\ w \in wk[v].inherited

\* lines 442-453: read returns 0 only when no process holds the write end
p_read(w) ==
    /\ wk[w].pc = "read" /\ ~WriteEndHeld(w)
    /\ wk' = [wk EXCEPT ![w] = IdleCall]
    /\ UNCHANGED <<engine, fn, ee, srv, lg>>

PipeNext ==
    \/ \E w \in Workers : p_pipe(w)
    \/ \E w \in Workers, loops \in BOOLEAN : p_fork(w, loops)
    \/ \E w \in Workers : p_close(w)
    \/ \E w \in Workers : p_child_exit(w)
    \/ \E w \in Workers : p_waitpid(w)
    \/ \E w \in Workers : p_read(w)

PipeSpec == PipeInit /\ [][PipeNext]_vars

\* C27: a call whose own child has exited is never kept from returning by
\* the child of another call: no child holds the write end of a pipe of a
\* call other than the one that forked it.
C27_NoInheritedWriteEnd ==
    \A w \in Workers : ~(wk[w].pc = "read" /\ WriteEndHeld(w))

====
